---------------------------- MODULE Spec2Model ----------------------------
(***************************************************************************)
(* Model of the Telegram download bot (src/bot.js): the message handler,   *)
(* handleSingleVideo, handlePlaylist, ffmpegMerge, zipFiles, cleanupFile   *)
(* and cleanupTemp.  Every await of the source is a step of the request    *)
(* that runs it; the file system is shared by all requests.                *)
(*                                                                         *)
(* Text notifications (bot.sendMessage) are taken to succeed; metadata     *)
(* fetches, downloads, the merge, the archive writer and file deliveries   *)
(* (sendVideo, sendDocument) may each fail.  fs.unlink and fs.rmdir remove *)
(* what is there and swallow ENOENT; under SpecClean they may also fail.   *)
(***************************************************************************)
EXTENDS Integers, Sequences, FiniteSets, TLC

VARIABLES inp, unlinkOutcomes, pc, fs, log, pending, sel, idx, vinfo, downloadedFiles

vars == <<inp, unlinkOutcomes, pc, fs, log, pending, sel, idx, vinfo, downloadedFiles>>

(***************************************************************************)
(* Bounds of the model and constants of the program.                       *)
(***************************************************************************)
\* src/bot.js:15
MAX_SIZE == 200 * 1024 * 1024

\* src/bot.js:17 sets 10; the model scales the cap down (a bound).
MAX_PLAYLIST_VIDEOS == 2

\* the longest catalog drawn for the selection check
MaxFormats == 3

\* f.height === 720
TargetHeight == 720

\* .slice(0, 100)
TitleMax == 100

Reqs == {"r1", "r2"}

Min(a, b) == IF a < b THEN a ELSE b

(***************************************************************************)
(* Format descriptors (the entries of info.formats).  A numeric field that *)
(* is missing in the JSON is 0 here: undefined and 0 are both falsy in     *)
(* `a || b`.                                                               *)
(***************************************************************************)
Fmt(id, ext, h, a, v, size, approx, abr, br) ==
  [format_id |-> id, ext |-> ext, height |-> h, acodec |-> a, vcodec |-> v,
   filesize |-> size, filesize_approx |-> approx, abr |-> abr, bitrate |-> br]

NoFmt == Fmt("", "", 0, "none", "none", 0, 0, 0, 0)

FormatPool ==
  { Fmt("c1", "mp4",  720, "aac",  "avc1", 1, 0, 0, 0),
    Fmt("c2", "webm", 720, "opus", "vp9",  0, MAX_SIZE, 0, 0),
    Fmt("cu", "mp4",  720, "aac",  "avc1", 0, 0, 0, 0),
    Fmt("cb", "mp4",  720, "aac",  "avc1", MAX_SIZE + 1, 0, 0, 0),
    Fmt("cl", "mp4",  480, "aac",  "avc1", 1, 0, 0, 0),
    Fmt("ck", "mkv",  720, "aac",  "avc1", 1, 0, 0, 0),
    Fmt("v1", "mp4",  720, "none", "avc1", 1, 0, 0, 0),
    Fmt("vu", "webm", 720, "none", "vp9",  0, 0, 0, 0),
    Fmt("vb", "mp4",  720, "none", "avc1", 0, MAX_SIZE + 1, 0, 0),
    Fmt("a1", "m4a",  0,   "aac",  "none", 1, 0, 128, 0),
    Fmt("a2", "webm", 0,   "opus", "none", 1, 0, 0, 256),
    Fmt("a3", "mp4",  0,   "aac",  "none", 1, 0, 0, 0),
    Fmt("au", "m4a",  0,   "aac",  "none", 0, 0, 320, 0),
    Fmt("ab", "m4a",  0,   "aac",  "none", MAX_SIZE + 1, 0, 320, 0),
    Fmt("ao", "ogg",  0,   "opus", "none", 1, 0, 320, 0),
    Fmt("nn", "mp4",  720, "none", "none", 1, 0, 0, 0) }

\* catalogs: format ids are unique within one catalog
Catalogs(n) ==
  UNION { { s \in [1..k -> FormatPool] :
              \A i, j \in 1..k : i # j => s[i] # s[j] } : k \in 0..n }

(***************************************************************************)
(* Variant selection, as handleSingleVideo and handlePlaylist compute it.  *)
(***************************************************************************)
\* ((f.filesize || f.filesize_approx) || 0)
SizeOf(f) ==
  IF f.filesize # 0 THEN f.filesize
  ELSE IF f.filesize_approx # 0 THEN f.filesize_approx ELSE 0

UnderLimit(f) == SizeOf(f) <= MAX_SIZE

IsCombined(f) ==
  /\ f.ext \in {"mp4", "webm"}
  /\ f.height = TargetHeight
  /\ f.acodec # "none"
  /\ f.vcodec # "none"
  /\ UnderLimit(f)

IsVideoOnly(f) ==
  /\ f.ext \in {"mp4", "webm"}
  /\ f.height = TargetHeight
  /\ f.acodec = "none"
  /\ f.vcodec # "none"
  /\ UnderLimit(f)

IsAudioCandidate(f) ==
  /\ f.acodec # "none"
  /\ f.vcodec = "none"
  /\ f.ext \in {"mp4", "webm", "m4a"}
  /\ UnderLimit(f)

\* (a.abr || a.bitrate || 0)
AudioRate(f) ==
  IF f.abr # 0 THEN f.abr ELSE IF f.bitrate # 0 THEN f.bitrate ELSE 0

\* Array.prototype.find over the indices that satisfy the predicate: the
\* first such element, or NoFmt (undefined)
First(formats, hits) ==
  IF hits = {} THEN NoFmt
  ELSE formats[CHOOSE i \in hits : \A j \in hits : i <= j]

FindCombined(formats) ==
  First(formats, { i \in 1..Len(formats) : IsCombined(formats[i]) })

FindVideoOnly(formats) ==
  First(formats, { i \in 1..Len(formats) : IsVideoOnly(formats[i]) })

\* Array.prototype.sort with the comparator (a, b) => rate(b) - rate(a):
\* a stable sort by descending rate (insertion of each element after the
\* elements whose rate is not smaller).
RECURSIVE InsertDesc(_, _)
InsertDesc(sorted, f) ==
  IF sorted = <<>> THEN <<f>>
  ELSE IF AudioRate(Head(sorted)) >= AudioRate(f)
       THEN <<Head(sorted)>> \o InsertDesc(Tail(sorted), f)
       ELSE <<f>> \o sorted

RECURSIVE SortDesc(_)
SortDesc(s) ==
  IF s = <<>> THEN <<>>
  ELSE InsertDesc(SortDesc(SubSeq(s, 1, Len(s) - 1)), s[Len(s)])

AudioCandidates(formats) == SortDesc(SelectSeq(formats, IsAudioCandidate))

NoSel == [kind |-> "unset", video |-> NoFmt, audio |-> NoFmt]

\* The selection both handlers make: the combined format if one is found,
\* else the video-only format and audioCandidates[0], else nothing.
Select(formats) ==
  LET combined  == FindCombined(formats)
      videoOnly == FindVideoOnly(formats)
      cands     == AudioCandidates(formats)
  IN  IF combined # NoFmt
        THEN [kind |-> "Combined", video |-> combined, audio |-> NoFmt]
      ELSE IF videoOnly = NoFmt
        THEN [kind |-> "NoVideo", video |-> NoFmt, audio |-> NoFmt]
      ELSE IF Len(cands) = 0
        THEN [kind |-> "NoAudio", video |-> videoOnly, audio |-> NoFmt]
      ELSE [kind |-> "SplitPair", video |-> videoOnly, audio |-> cands[1]]

(***************************************************************************)
(* Titles and paths.  A title is a sequence of characters; a path is       *)
(* <<directory, title, middle, extension>>, standing for                   *)
(* directory/title_middle.extension.                                       *)
(***************************************************************************)
IsLegalChar(c) == c \notin {"/", "?", ":"}

\* sanitize(title): the characters a file name may not hold are removed
sanitize(title) == SelectSeq(title, IsLegalChar)

\* .slice(0, 100)
slice(title) == SubSeq(title, 1, Min(Len(title), TitleMax))

\* sanitize(info.title || dflt).slice(0, 100)
SafeTitle(title, dflt) == slice(sanitize(IF title = <<>> THEN dflt ELSE title))

\* __dirname
AppDir == "app"

NoPath == <<"", <<>>, "", "">>

\* fs.mkdtemp(path.join(os.tmpdir(), 'ytplaylist-')): a fresh directory per call
TempDir(r) == <<r, <<>>, "", "">>

InDir(p, dir) == p[1] = dir[1] /\ p # dir

(***************************************************************************)
(* Messages and metadata.                                                  *)
(***************************************************************************)
NoUrl == [http |-> FALSE, v |-> 0]

Info(title, formats, hasFormats, entries) ==
  [title |-> title, formats |-> formats, hasFormats |-> hasFormats,
   entries |-> entries]

NoInfo == Info(<<>>, <<>>, FALSE, <<>>)

Msg(kind, fetch, info) ==
  [kind |-> kind, url |-> [http |-> TRUE, v |-> 0], fetch |-> fetch,
   info |-> info]

NoMsg == Msg("none", "fail", NoInfo)

PoolFmt(id) == CHOOSE f \in FormatPool : f.format_id = id

\* the metadata a fetch of one video may return
RepInfos ==
  { Info(<<"a">>, <<PoolFmt("c1"), PoolFmt("v1"), PoolFmt("a1")>>, TRUE, <<>>),
    Info(<<"a", "/">>, <<PoolFmt("v1"), PoolFmt("a1"), PoolFmt("a2")>>, TRUE, <<>>),
    Info(<<"b">>, <<PoolFmt("cb"), PoolFmt("vb"), PoolFmt("a1")>>, TRUE, <<>>),
    Info(<<"a">>, <<PoolFmt("v1"), PoolFmt("ab")>>, TRUE, <<>>),
    Info(<<>>, <<PoolFmt("cu")>>, TRUE, <<>>) }

\* info.entries of a playlist of n videos: an entry carries an id and either
\* a full URL or none
PlaylistEntries(n) ==
  [i \in 1..n |-> [id |-> i,
                   url |-> IF i % 2 = 0 THEN [http |-> TRUE, v |-> i] ELSE NoUrl]]

PlaylistInfos ==
  { Info(t, <<>>, FALSE, PlaylistEntries(n)) :
      t \in {<<"a">>, <<>>}, n \in 1..(MAX_PLAYLIST_VIDEOS + 2) }

RepInputs ==
  { Msg(k, "fail", NoInfo) : k \in {"empty", "command", "start", "invalid", "url"} }
  \cup { Msg("url", "ok", i) : i \in RepInfos \cup PlaylistInfos }

\* single videos over every catalog of at most MaxFormats formats
SelInputs ==
  { Msg("url", "ok", Info(<<"a">>, c, TRUE, <<>>)) : c \in Catalogs(MaxFormats) }

\* video.url && video.url.startsWith('http') ? video.url
\*   : `https://www.youtube.com/watch?v=${video.id || video.url}`
VideoUrl(video) ==
  IF video.url # NoUrl /\ video.url.http THEN video.url
  ELSE [http |-> TRUE, v |-> IF video.id # 0 THEN video.id ELSE video.url.v]

\* info.entries.slice(0, MAX_PLAYLIST_VIDEOS)
SliceAll(info) == info.entries

Entries(info) ==
  SubSeq(info.entries, 1, Min(Len(info.entries), MAX_PLAYLIST_VIDEOS))

(***************************************************************************)
(* The log of a request: every collaborator call and notification, in      *)
(* order (a history variable).                                             *)
(***************************************************************************)
L(op, item, role, fmt, path, ok, size) ==
  [op |-> op, item |-> item, role |-> role, fmt |-> fmt, path |-> path,
   ok |-> ok, size |-> size]

\* bot.sendMessage(chatId, text): text is the notification's category
Note(text) == L("sendMessage", 0, text, "", NoPath, TRUE, 0)

FileSizes == {1, MAX_SIZE, MAX_SIZE + 1}

\* stats.size > MAX_SIZE
OversizeNever(size) == FALSE

Oversize(size) == size > MAX_SIZE

\* a download, the merge or the archive writer ends well, or fails leaving a
\* partial file, or fails leaving none
Outcomes == {"ok", "fail_partial", "fail_clean"}

Written(fsys, path, res) == IF res = "fail_clean" THEN fsys ELSE fsys \cup {path}

\* what fs.unlink and fs.rmdir can answer: "ok" stands for a deletion done or
\* for ENOENT (nothing there), "error" for any other error, the path staying
DeleteOutcomes == {"ok", "error"}

\* cleanupFile (lines 317-323): fs.unlink inside a try whose catch only logs,
\* so the call ends normally with the file gone or, after an error, still there
cleanupFile(fsys, path, d) == IF d = "ok" THEN fsys \ {path} ELSE fsys

(***************************************************************************)
(* Paths of a single-video request (src/bot.js:58, 78, 133-135).           *)
(***************************************************************************)
SvTitle(r) == SafeTitle(inp[r].info.title, <<"video">>)

SvCombinedPath(r) ==
  <<AppDir, SvTitle(r), sel[r].video.format_id, sel[r].video.ext>>

SvVideoPath(r) == <<AppDir, SvTitle(r), "video", sel[r].video.ext>>

SvAudioPath(r) == <<AppDir, SvTitle(r), "audio", sel[r].audio.ext>>

SvMergedPath(r) == <<AppDir, SvTitle(r), "720p_merged", "mp4">>

\* the finally block of handleSingleVideo: the paths it cleans, in order
SvFinallyNoOutput(r) == <<SvVideoPath(r), SvAudioPath(r)>>

SvFinallyPaths(r) == <<SvVideoPath(r), SvAudioPath(r), SvMergedPath(r)>>

(***************************************************************************)
(* Paths of a playlist request (src/bot.js:165-167, 188, 203, 237-239).    *)
(***************************************************************************)
PlTitle(r) == SafeTitle(inp[r].info.title, <<"playlist">>)

ZipPath(r) == <<AppDir, PlTitle(r), "", "zip">>

VTitle(r) == SafeTitle(vinfo[r].title, <<"video">>)

PlCombinedPath(r, s) == <<TempDir(r)[1], VTitle(r), s.video.format_id, s.video.ext>>

PlVideoPath(r) == <<TempDir(r)[1], VTitle(r), "video", sel[r].video.ext>>

PlAudioPath(r) == <<TempDir(r)[1], VTitle(r), "audio", sel[r].audio.ext>>

PlMergedPath(r) == <<TempDir(r)[1], VTitle(r), "720p_merged", "mp4">>

\* { path: outputPath, name: path.basename(outputPath) }
FileEntry(path, item) == [path |-> path, name |-> Tail(path), item |-> item]

(***************************************************************************)
(* Initial states.                                                         *)
(***************************************************************************)
InitRest ==
  /\ pc = [r \in Reqs |-> "idle"]
  /\ fs = {}
  /\ log = [r \in Reqs |-> <<>>]
  /\ pending = [r \in Reqs |-> {}]
  /\ sel = [r \in Reqs |-> NoSel]
  /\ idx = [r \in Reqs |-> 0]
  /\ vinfo = [r \in Reqs |-> NoInfo]
  /\ downloadedFiles = [r \in Reqs |-> <<>>]

\* one request
Init ==
  /\ inp \in { [r \in Reqs |-> IF r = "r1" THEN m ELSE NoMsg] : m \in RepInputs }
  /\ unlinkOutcomes = {"ok"}
  /\ InitRest

(***************************************************************************)
(* Steps shared by the actions.                                            *)
(***************************************************************************)
Logged(r, entries) == log' = [log EXCEPT ![r] = @ \o entries]

Goto(r, label) == pc' = [pc EXCEPT ![r] = label]

(***************************************************************************)
(* bot.onText(/\/start/) and bot.on('message') (src/bot.js:19-55).         *)
(***************************************************************************)
\* lines 19-34: the welcome, the early returns, the URL test, the first notice
Receive(r) ==
  /\ pc[r] = "idle"
  /\ inp[r].kind # "none"
  /\ Logged(r, CASE inp[r].kind = "start"   -> <<Note("welcome")>>
                 [] inp[r].kind = "invalid" -> <<Note("invalid_url")>>
                 [] inp[r].kind = "url"     -> <<Note("fetching")>>
                 [] OTHER                   -> <<>>)
  /\ Goto(r, IF inp[r].kind = "url" THEN "fetch" ELSE "done")
  /\ UNCHANGED <<inp, unlinkOutcomes, fs, pending, sel, idx, vinfo, downloadedFiles>>

\* lines 36-54: the metadata fetch, the dispatch, the outer catch
FetchInfo(r) ==
  /\ pc[r] = "fetch"
  /\ IF inp[r].fetch = "fail"
       THEN /\ Logged(r, <<L("fetch", 0, "", "", NoPath, FALSE, 0), Note("failed")>>)
            /\ Goto(r, "done")
       ELSE /\ Logged(r, <<L("fetch", 0, "", "", NoPath, TRUE, 0)>>)
            /\ Goto(r, IF Len(inp[r].info.entries) > 1 THEN "pl_start" ELSE "sv_start")
  /\ UNCHANGED <<inp, unlinkOutcomes, fs, pending, sel, idx, vinfo, downloadedFiles>>

(***************************************************************************)
(* handleSingleVideo (src/bot.js:57-162).                                  *)
(***************************************************************************)
\* lines 58-131 and the notices at 79, 104, 116, 128, 138.  info.formats of a
\* one-entry playlist is undefined: forEach throws into the outer catch.
SvSelect(r) ==
  /\ pc[r] = "sv_start"
  /\ IF ~inp[r].info.hasFormats
       THEN /\ Logged(r, <<Note("processing"), Note("failed")>>)
            /\ Goto(r, "done")
            /\ UNCHANGED sel
       ELSE LET s == Select(inp[r].info.formats)
            IN  /\ sel' = [sel EXCEPT ![r] = s]
                /\ Logged(r, <<Note("processing")>> \o
                     CASE s.kind = "Combined"  -> <<Note("downloading_combined")>>
                       [] s.kind = "NoVideo"   -> <<Note("fallback"), Note("no_video")>>
                       [] s.kind = "NoAudio"   -> <<Note("fallback"), Note("no_audio")>>
                       [] s.kind = "SplitPair" -> <<Note("fallback"), Note("downloading_video")>>)
                /\ Goto(r, CASE s.kind = "Combined"  -> "sv_c_dl"
                             [] s.kind = "SplitPair" -> "sv_s_dlv"
                             [] OTHER                -> "done")
  /\ UNCHANGED <<inp, unlinkOutcomes, fs, pending, idx, vinfo, downloadedFiles>>

\* lines 81-84: the combined download, outside any try of the handler: a
\* failure reaches the outer catch (lines 51-54) and line 99 is never run
SvCombinedDownload(r) ==
  /\ pc[r] = "sv_c_dl"
  /\ \E res \in Outcomes :
       LET p == SvCombinedPath(r)
           e == L("download", 0, "combined", sel[r].video.format_id, p, res = "ok", 0)
       IN  /\ fs' = Written(fs, p, res)
           /\ IF res = "ok"
                THEN Logged(r, <<e>>) /\ Goto(r, "sv_c_stat")
                ELSE Logged(r, <<e, Note("failed")>>) /\ Goto(r, "done")
  /\ UNCHANGED <<inp, unlinkOutcomes, pending, sel, idx, vinfo, downloadedFiles>>

\* lines 87-91, 94-100: fs.stat, the size gate, the catch, cleanupFile not
\* awaited (the unlink is left pending) and the return
SvCombinedStat(r) ==
  /\ pc[r] = "sv_c_stat"
  /\ LET p == SvCombinedPath(r)
     IN  IF p \notin fs
           THEN /\ Logged(r, <<L("stat", 0, "", "", p, FALSE, 0), Note("stat_error")>>)
                /\ pending' = [pending EXCEPT ![r] = @ \cup {p}]
                /\ Goto(r, "done")
           ELSE \E size \in FileSizes :
                  IF Oversize(size)
                    THEN /\ Logged(r, <<L("stat", 0, "", "", p, TRUE, size), Note("oversize")>>)
                         /\ pending' = [pending EXCEPT ![r] = @ \cup {p}]
                         /\ Goto(r, "done")
                    ELSE /\ Logged(r, <<L("stat", 0, "", "", p, TRUE, size)>>)
                         /\ Goto(r, "sv_c_send")
                         /\ UNCHANGED pending
  /\ UNCHANGED <<inp, unlinkOutcomes, fs, sel, idx, vinfo, downloadedFiles>>

\* lines 92-100: bot.sendVideo, the catch, cleanupFile not awaited, return
SvCombinedSend(r) ==
  /\ pc[r] = "sv_c_send"
  /\ \E ok \in BOOLEAN :
       LET p == SvCombinedPath(r)
           e == L("sendVideo", 0, "", "", p, ok, 0)
       IN  /\ Logged(r, IF ok THEN <<e>> ELSE <<e, Note("stat_error")>>)
           /\ pending' = [pending EXCEPT ![r] = @ \cup {p}]
           /\ Goto(r, "done")
  /\ UNCHANGED <<inp, unlinkOutcomes, fs, sel, idx, vinfo, downloadedFiles>>

\* the unlink that line 99 started completes
PendingUnlink(r) ==
  /\ pc[r] # "crashed"
  /\ \E p \in pending[r] : \E d \in unlinkOutcomes :
       /\ fs' = cleanupFile(fs, p, d)
       /\ pending' = [pending EXCEPT ![r] = @ \ {p}]
       /\ Logged(r, <<L("unlink", 0, "", "", p, d = "ok", 0)>>)
  /\ UNCHANGED <<inp, unlinkOutcomes, pc, sel, idx, vinfo, downloadedFiles>>

\* a variant in which each part download is guarded on its own, so that the
\* steps after a failed download still run
SvCatchResumes(r) ==
  CASE pc[r] = "sv_s_dlv" -> "sv_s_dla"
    [] pc[r] = "sv_s_dla" -> "sv_s_merge"
    [] OTHER              -> "sv_fin1"

\* the try of lines 137-153 has one catch (lines 154-156): whichever step
\* throws, the rest of the try is skipped and the finally block is next
SvCatch(r) == "sv_fin1"

\* lines 138-139, 141 and the catch at 154-156
SvDownloadVideo(r) ==
  /\ pc[r] = "sv_s_dlv"
  /\ \E res \in Outcomes :
       LET p == SvVideoPath(r)
           e == L("download", 0, "video", sel[r].video.format_id, p, res = "ok", 0)
       IN  /\ fs' = Written(fs, p, res)
           /\ IF res = "ok"
                THEN Logged(r, <<e, Note("downloading_audio")>>) /\ Goto(r, "sv_s_dla")
                ELSE Logged(r, <<e, Note("merge_error")>>) /\ Goto(r, SvCatch(r))
  /\ UNCHANGED <<inp, unlinkOutcomes, pending, sel, idx, vinfo, downloadedFiles>>

\* lines 142, 144 and the catch
SvDownloadAudio(r) ==
  /\ pc[r] = "sv_s_dla"
  /\ \E res \in Outcomes :
       LET p == SvAudioPath(r)
           e == L("download", 0, "audio", sel[r].audio.format_id, p, res = "ok", 0)
       IN  /\ fs' = Written(fs, p, res)
           /\ IF res = "ok"
                THEN Logged(r, <<e, Note("merging")>>) /\ Goto(r, "sv_s_merge")
                ELSE Logged(r, <<e, Note("merge_error")>>) /\ Goto(r, SvCatch(r))
  /\ UNCHANGED <<inp, unlinkOutcomes, pending, sel, idx, vinfo, downloadedFiles>>

\* ffmpegMerge (lines 279-293): resolves with the output written, or rejects;
\* it cannot succeed without both inputs
MergeOutcomes(fsys, videoPath, audioPath) ==
  IF videoPath \in fsys /\ audioPath \in fsys THEN Outcomes
  ELSE Outcomes \ {"ok"}

\* line 145 and the catch
SvMerge(r) ==
  /\ pc[r] = "sv_s_merge"
  /\ \E res \in MergeOutcomes(fs, SvVideoPath(r), SvAudioPath(r)) :
       LET p == SvMergedPath(r)
           e == L("merge", 0, "", "", p, res = "ok", 0)
       IN  /\ fs' = Written(fs, p, res)
           /\ IF res = "ok"
                THEN Logged(r, <<e>>) /\ Goto(r, "sv_s_stat")
                ELSE Logged(r, <<e, Note("merge_error")>>) /\ Goto(r, SvCatch(r))
  /\ UNCHANGED <<inp, unlinkOutcomes, pending, sel, idx, vinfo, downloadedFiles>>

\* lines 148-151 and the catch
SvMergedStat(r) ==
  /\ pc[r] = "sv_s_stat"
  /\ LET p == SvMergedPath(r)
     IN  IF p \notin fs
           THEN /\ Logged(r, <<L("stat", 0, "", "", p, FALSE, 0), Note("merge_error")>>)
                /\ Goto(r, SvCatch(r))
           ELSE \E size \in FileSizes :
                  IF Oversize(size)
                    THEN /\ Logged(r, <<L("stat", 0, "", "", p, TRUE, size), Note("oversize")>>)
                         /\ Goto(r, "sv_fin1")
                    ELSE /\ Logged(r, <<L("stat", 0, "", "", p, TRUE, size)>>)
                         /\ Goto(r, "sv_s_send")
  /\ UNCHANGED <<inp, unlinkOutcomes, fs, pending, sel, idx, vinfo, downloadedFiles>>

\* line 152 and the catch
SvMergedSend(r) ==
  /\ pc[r] = "sv_s_send"
  /\ \E ok \in BOOLEAN :
       LET e == L("sendVideo", 0, "", "", SvMergedPath(r), ok, 0)
       IN  /\ Logged(r, IF ok THEN <<e>> ELSE <<e, Note("merge_error")>>)
           /\ Goto(r, "sv_fin1")
  /\ UNCHANGED <<inp, unlinkOutcomes, fs, pending, sel, idx, vinfo, downloadedFiles>>

\* lines 157-161: the finally block, one awaited cleanupFile per step
SvFinally(r) ==
  /\ pc[r] \in {"sv_fin1", "sv_fin2", "sv_fin3"}
  /\ LET k == CASE pc[r] = "sv_fin1" -> 1 [] pc[r] = "sv_fin2" -> 2 [] OTHER -> 3
         paths == SvFinallyPaths(r)
     IN  /\ IF k <= Len(paths)
              THEN \E d \in unlinkOutcomes :
                     /\ fs' = cleanupFile(fs, paths[k], d)
                     /\ Logged(r, <<L("unlink", 0, "", "", paths[k], d = "ok", 0)>>)
              ELSE UNCHANGED <<fs, log>>
         /\ Goto(r, CASE k = 1 -> "sv_fin2" [] k = 2 -> "sv_fin3" [] OTHER -> "done")
  /\ UNCHANGED <<inp, unlinkOutcomes, pending, sel, idx, vinfo, downloadedFiles>>

handleSingleVideo(r) ==
  \/ SvSelect(r)
  \/ SvCombinedDownload(r)
  \/ SvCombinedStat(r)
  \/ SvCombinedSend(r)
  \/ PendingUnlink(r)
  \/ SvDownloadVideo(r)
  \/ SvDownloadAudio(r)
  \/ SvMerge(r)
  \/ SvMergedStat(r)
  \/ SvMergedSend(r)
  \/ SvFinally(r)

(***************************************************************************)
(* handlePlaylist (src/bot.js:164-277).                                    *)
(***************************************************************************)
\* lines 165-174: mkdtemp, the notice, the slice
PlStart(r) ==
  /\ pc[r] = "pl_start"
  /\ fs' = fs \cup {TempDir(r)}
  /\ Logged(r, <<L("mkdtemp", 0, "", "", TempDir(r), TRUE, 0), Note("playlist_start")>>)
  /\ idx' = [idx EXCEPT ![r] = 1]
  /\ Goto(r, "pl_fetch")
  /\ UNCHANGED <<inp, unlinkOutcomes, pending, sel, vinfo, downloadedFiles>>

\* the catch of the loop body (lines 252-254) goes on with the next entry
NextAfterCatchBreak(r) == Len(Entries(inp[r].info)) + 1

NextAfterCatch(r) == idx[r] + 1

\* the end of one iteration of the loop at line 176: the next entry, or the
\* test at line 257 once the entries are used up
Iterate(r, next, files) ==
  /\ idx' = [idx EXCEPT ![r] = next]
  /\ Goto(r, IF next <= Len(Entries(inp[r].info)) THEN "pl_fetch"
             ELSE IF Len(files) = 0 THEN "ct_files" ELSE "pl_zip")

\* lines 179-235: the per-video metadata fetch and the selection
PlFetch(r) ==
  /\ pc[r] = "pl_fetch"
  /\ \E res \in {NoInfo} \cup RepInfos :
       LET video == Entries(inp[r].info)[idx[r]]
           e == L("fetch", idx[r], "", "", NoPath, res # NoInfo, VideoUrl(video).v)
           s == Select(res.formats)
       IN  /\ Logged(r, <<e>>)
           /\ IF res = NoInfo
                THEN /\ Iterate(r, NextAfterCatch(r), downloadedFiles[r])
                     /\ UNCHANGED <<vinfo, sel>>
                ELSE /\ vinfo' = [vinfo EXCEPT ![r] = res]
                     /\ sel' = [sel EXCEPT ![r] = s]
                     /\ CASE s.kind = "Combined"  ->
                               Goto(r, "pl_c_dl") /\ UNCHANGED idx
                          [] s.kind = "SplitPair" ->
                               Goto(r, "pl_s_dlv") /\ UNCHANGED idx
                          [] OTHER ->
                               Iterate(r, idx[r] + 1, downloadedFiles[r])
  /\ UNCHANGED <<inp, unlinkOutcomes, fs, pending, downloadedFiles>>

\* lines 203-205, 251 and the catch
PlCombinedDownload(r) ==
  /\ pc[r] = "pl_c_dl"
  /\ \E res \in Outcomes :
       LET p == PlCombinedPath(r, sel[r])
           e == L("download", idx[r], "combined", sel[r].video.format_id, p, res = "ok", 0)
           files == IF res = "ok" THEN Append(downloadedFiles[r], FileEntry(p, idx[r]))
                    ELSE downloadedFiles[r]
       IN  /\ fs' = Written(fs, p, res)
           /\ Logged(r, <<e>>)
           /\ downloadedFiles' = [downloadedFiles EXCEPT ![r] = files]
           /\ Iterate(r, IF res = "ok" THEN idx[r] + 1 ELSE NextAfterCatch(r), files)
  /\ UNCHANGED <<inp, unlinkOutcomes, pending, sel, vinfo>>

\* line 241 and the catch
PlDownloadVideo(r) ==
  /\ pc[r] = "pl_s_dlv"
  /\ \E res \in Outcomes :
       LET p == PlVideoPath(r)
           e == L("download", idx[r], "video", sel[r].video.format_id, p, res = "ok", 0)
       IN  /\ fs' = Written(fs, p, res)
           /\ Logged(r, <<e>>)
           /\ IF res = "ok"
                THEN Goto(r, "pl_s_dla") /\ UNCHANGED idx
                ELSE Iterate(r, NextAfterCatch(r), downloadedFiles[r])
  /\ UNCHANGED <<inp, unlinkOutcomes, pending, sel, vinfo, downloadedFiles>>

\* line 242 and the catch
PlDownloadAudio(r) ==
  /\ pc[r] = "pl_s_dla"
  /\ \E res \in Outcomes :
       LET p == PlAudioPath(r)
           e == L("download", idx[r], "audio", sel[r].audio.format_id, p, res = "ok", 0)
       IN  /\ fs' = Written(fs, p, res)
           /\ Logged(r, <<e>>)
           /\ IF res = "ok"
                THEN Goto(r, "pl_s_merge") /\ UNCHANGED idx
                ELSE Iterate(r, NextAfterCatch(r), downloadedFiles[r])
  /\ UNCHANGED <<inp, unlinkOutcomes, pending, sel, vinfo, downloadedFiles>>

\* line 244 and the catch
PlMerge(r) ==
  /\ pc[r] = "pl_s_merge"
  /\ \E res \in MergeOutcomes(fs, PlVideoPath(r), PlAudioPath(r)) :
       LET p == PlMergedPath(r)
           e == L("merge", idx[r], "", "", p, res = "ok", 0)
       IN  /\ fs' = Written(fs, p, res)
           /\ Logged(r, <<e>>)
           /\ IF res = "ok"
                THEN Goto(r, "pl_s_c1") /\ UNCHANGED idx
                ELSE Iterate(r, NextAfterCatch(r), downloadedFiles[r])
  /\ UNCHANGED <<inp, unlinkOutcomes, pending, sel, vinfo, downloadedFiles>>

\* a variant that records the merged file and leaves the two parts where
\* they are
PlKeepParts(r) ==
  /\ pc[r] \in {"pl_s_c1", "pl_s_c2"}
  /\ LET files == Append(downloadedFiles[r], FileEntry(PlMergedPath(r), idx[r]))
     IN  /\ downloadedFiles' = [downloadedFiles EXCEPT ![r] = files]
         /\ Iterate(r, idx[r] + 1, files)
  /\ UNCHANGED <<inp, unlinkOutcomes, fs, log, pending, sel, vinfo>>

\* lines 247-248 and 251: the two parts are removed, the merged file recorded
PlCleanupParts(r) ==
  /\ pc[r] \in {"pl_s_c1", "pl_s_c2"}
  /\ \E d \in unlinkOutcomes :
       IF pc[r] = "pl_s_c1"
         THEN /\ fs' = cleanupFile(fs, PlVideoPath(r), d)
              /\ Logged(r, <<L("unlink", idx[r], "", "", PlVideoPath(r), d = "ok", 0)>>)
              /\ Goto(r, "pl_s_c2")
              /\ UNCHANGED <<idx, downloadedFiles>>
         ELSE LET files == Append(downloadedFiles[r], FileEntry(PlMergedPath(r), idx[r]))
              IN  /\ fs' = cleanupFile(fs, PlAudioPath(r), d)
                  /\ Logged(r, <<L("unlink", idx[r], "", "", PlAudioPath(r), d = "ok", 0)>>)
                  /\ downloadedFiles' = [downloadedFiles EXCEPT ![r] = files]
                  /\ Iterate(r, idx[r] + 1, files)
  /\ UNCHANGED <<inp, unlinkOutcomes, pending, sel, vinfo>>

\* zipFiles (lines 295-315).  The promise resolves when the output stream
\* emits 'close' and rejects when the archiver emits 'error'; the output
\* stream has no 'error' listener.  When writing the archive fails on the
\* output stream (the file cannot be opened, the disk is full) the stream
\* library decides what follows: the unhandled 'error' event ends the
\* process, or the stream is closed after the error and 'close' resolves the
\* promise with the archive cut short or absent.
ZipOutcomes == {"ok", "fail_partial", "closed_partial", "closed_absent", "crash"}

\* how the promise of zipFiles ended for the handler
ZipSettled(res) ==
  CASE res = "fail_partial" -> "rejected"
    [] res = "crash"        -> "unsettled"
    [] OTHER                -> "resolved"

\* line 263 and the catch at 271-273
PlZip(r) ==
  /\ pc[r] = "pl_zip"
  /\ \E res \in ZipOutcomes :
       LET e == L("zipFiles", 0, ZipSettled(res), "", ZipPath(r), res = "ok",
                  Len(downloadedFiles[r]))
       IN  /\ fs' = IF res = "closed_absent" THEN fs ELSE fs \cup {ZipPath(r)}
           /\ CASE ZipSettled(res) = "resolved" ->
                     Logged(r, <<e>>) /\ Goto(r, "pl_stat")
                [] ZipSettled(res) = "rejected" ->
                     Logged(r, <<e, Note("zip_error")>>) /\ Goto(r, "ct_files")
                [] OTHER ->
                     Logged(r, <<e>>) /\ pc' = [q \in Reqs |-> "crashed"]
  /\ UNCHANGED <<inp, unlinkOutcomes, pending, sel, idx, vinfo, downloadedFiles>>

\* lines 265-268 and the catch
PlStat(r) ==
  /\ pc[r] = "pl_stat"
  /\ LET p == ZipPath(r)
     IN  IF p \notin fs
           THEN /\ Logged(r, <<L("stat", 0, "", "", p, FALSE, 0), Note("zip_error")>>)
                /\ Goto(r, "ct_files")
           ELSE \E size \in FileSizes :
                  IF Oversize(size)
                    THEN /\ Logged(r, <<L("stat", 0, "", "", p, TRUE, size), Note("zip_oversize")>>)
                         /\ Goto(r, "ct_files")
                    ELSE /\ Logged(r, <<L("stat", 0, "", "", p, TRUE, size)>>)
                         /\ Goto(r, "pl_send")
  /\ UNCHANGED <<inp, unlinkOutcomes, fs, pending, sel, idx, vinfo, downloadedFiles>>

\* line 269 and the catch
PlSend(r) ==
  /\ pc[r] = "pl_send"
  /\ \E ok \in BOOLEAN :
       LET e == L("sendDocument", 0, "", "", ZipPath(r), ok, 0)
       IN  /\ Logged(r, IF ok THEN <<e>> ELSE <<e, Note("zip_error")>>)
           /\ Goto(r, "ct_files")
  /\ UNCHANGED <<inp, unlinkOutcomes, fs, pending, sel, idx, vinfo, downloadedFiles>>

\* a variant of line 327 that deletes one file after the other and gives up
\* at the first deletion that fails
AttemptedUntilFailure(outs) ==
  IF \A i \in 1..Len(outs) : outs[i] = "ok" THEN Len(outs)
  ELSE CHOOSE i \in 1..Len(outs) :
         outs[i] # "ok" /\ \A j \in 1..(i - 1) : outs[j] = "ok"

\* line 327: files.map starts one cleanupFile per recorded file and none of
\* them rejects, so Promise.all waits for all of them whatever their outcomes
Attempted(outs) == Len(outs)

\* cleanupTemp (lines 325-336), called at line 258 or 275: the recorded files
\* (Promise.all), the temp directory with what is left in it, the archive;
\* after the call at line 258 comes the notice of line 259
cleanupTemp(r) ==
  /\ pc[r] \in {"ct_files", "ct_rmdir", "ct_zip"}
  /\ CASE pc[r] = "ct_files" ->
            \E outs \in [1..Len(downloadedFiles[r]) -> unlinkOutcomes] :
              LET files == downloadedFiles[r]
                  n == Attempted(outs)
              IN  /\ fs' = fs \ { files[i].path : i \in { j \in 1..n : outs[j] = "ok" } }
                  /\ Logged(r, [i \in 1..n |->
                                  L("unlink", 0, "", "", files[i].path, outs[i] = "ok", 0)])
                  /\ Goto(r, "ct_rmdir")
       [] pc[r] = "ct_rmdir" ->
            \E d \in unlinkOutcomes :
              /\ fs' = IF d = "ok"
                         THEN { p \in fs : p # TempDir(r) /\ ~InDir(p, TempDir(r)) }
                         ELSE fs
              /\ Logged(r, <<L("rmdir", 0, "", "", TempDir(r), d = "ok", 0)>>)
              /\ Goto(r, "ct_zip")
       [] pc[r] = "ct_zip" ->
            \E d \in unlinkOutcomes :
              /\ fs' = cleanupFile(fs, ZipPath(r), d)
              /\ Logged(r, <<L("unlink", 0, "", "", ZipPath(r), d = "ok", 0)>> \o
                           IF Len(downloadedFiles[r]) = 0
                             THEN <<Note("none_downloaded")>> ELSE <<>>)
              /\ Goto(r, "done")
  /\ UNCHANGED <<inp, unlinkOutcomes, pending, sel, idx, vinfo, downloadedFiles>>

handlePlaylist(r) ==
  \/ PlStart(r)
  \/ PlFetch(r)
  \/ PlCombinedDownload(r)
  \/ PlDownloadVideo(r)
  \/ PlDownloadAudio(r)
  \/ PlMerge(r)
  \/ PlCleanupParts(r)
  \/ PlZip(r)
  \/ PlStat(r)
  \/ PlSend(r)
  \/ cleanupTemp(r)

(***************************************************************************)
(* Specifications.                                                         *)
(***************************************************************************)
Next ==
  \E r \in Reqs :
    \/ Receive(r)
    \/ FetchInfo(r)
    \/ handleSingleVideo(r)
    \/ handlePlaylist(r)

\* one request at a time
Spec == Init /\ [][Next]_vars

\* one request, a single video over every catalog of the selection check
InitSel ==
  /\ inp \in { [r \in Reqs |-> IF r = "r1" THEN m ELSE NoMsg] :
                 m \in RepInputs \cup SelInputs }
  /\ unlinkOutcomes = {"ok"}
  /\ InitRest

SpecSel == InitSel /\ [][Next]_vars

\* the second request of a concurrent pair: a titled single video that has
\* something to download
ConcInfos ==
  { i \in RepInfos :
      i.title # <<>> /\ Select(i.formats).kind \in {"Combined", "SplitPair"} }

\* two requests in flight together
InitConc ==
  /\ inp \in { [r \in Reqs |-> IF r = "r1" THEN m1 ELSE m2] :
                 m1 \in RepInputs,
                 m2 \in { Msg("url", "ok", i) : i \in ConcInfos } }
  /\ unlinkOutcomes = {"ok"}
  /\ InitRest

SpecConc == InitConc /\ [][Next]_vars

\* the requests of the cleanup check: every kind of message, the single
\* videos, and one playlist that fills the cap
CleanInputs ==
  { m \in RepInputs : m.info \notin PlaylistInfos }
  \cup { Msg("url", "ok", Info(<<"a">>, <<>>, FALSE, PlaylistEntries(MAX_PLAYLIST_VIDEOS))) }

\* one request, every deletion free to fail
InitClean ==
  /\ inp \in { [r \in Reqs |-> IF r = "r1" THEN m ELSE NoMsg] : m \in CleanInputs }
  /\ unlinkOutcomes = DeleteOutcomes
  /\ InitRest

SpecClean == InitClean /\ [][Next]_vars

(***************************************************************************)
(* Vocabulary of the properties.                                           *)
(***************************************************************************)
LogIdx(r) == 1..Len(log[r])

\* the handler has returned and no unlink it started is still pending
Finished(r) == pc[r] = "done" /\ pending[r] = {}

InFlight(r) == pc[r] # "idle" /\ ~Finished(r)

IsPlaylist(r) ==
  inp[r].kind = "url" /\ inp[r].fetch = "ok" /\ Len(inp[r].info.entries) > 1

IsSingle(r) ==
  inp[r].kind = "url" /\ inp[r].fetch = "ok" /\ Len(inp[r].info.entries) <= 1

\* the loop of handlePlaylist is over
PlLoopDone(r) ==
  /\ IsPlaylist(r)
  /\ pc[r] \in {"pl_zip", "pl_stat", "pl_send", "ct_files", "ct_rmdir", "ct_zip", "done"}

IsWrite(e) == e.op \in {"download", "merge", "zipFiles", "mkdtemp"}

IsDelivery(e) == e.op \in {"sendVideo", "sendDocument"}

\* every path the request asked a collaborator to create
CreatedPaths(r) == { log[r][i].path : i \in { j \in LogIdx(r) : IsWrite(log[r][j]) } }

\* the paths of successfully delivered single videos
DeliveredVideo(r) ==
  { log[r][i].path :
      i \in { j \in LogIdx(r) : log[r][j].op = "sendVideo" /\ log[r][j].ok } }

\* every path the request wrote, measured, delivered or deleted
Touched(r) == { log[r][i].path : i \in LogIdx(r) } \ {NoPath}

Notes(r) ==
  { log[r][i].role : i \in { j \in LogIdx(r) : log[r][j].op = "sendMessage" } }

FailureNotes == {"failed", "stat_error", "merge_error", "zip_error", "none_downloaded"}

OversizeNotes == {"oversize", "zip_oversize"}

(***************************************************************************)
(* C1  Cleanup on every exit path.                                         *)
(***************************************************************************)
\* C1: once a request has finished, no file or directory is left at any
\* path it created, except the delivered video of a single-item success.
\* The code breaks it: a failed combined download of handleSingleVideo
\* (line 81) leaves for the outer catch without cleanupFile.
C1_NoFileLeftAfterFinish ==
  \A r \in Reqs :
    Finished(r) => (CreatedPaths(r) \cap fs) \subseteq DeliveredVideo(r)

(***************************************************************************)
(* C2  A failed merge of a single split pair.                              *)
(***************************************************************************)
\* both part downloads of the single video succeeded and the merge failed
SplitMergeFailed(r) ==
  \E k \in LogIdx(r) :
    /\ log[r][k].op = "merge" /\ ~log[r][k].ok /\ log[r][k].item = 0
    /\ \E j \in 1..(k - 1) :
         /\ log[r][j].op = "download" /\ log[r][j].role = "audio"
         /\ log[r][j].ok /\ log[r][j].item = 0
         /\ \E i \in 1..(j - 1) :
              /\ log[r][i].op = "download" /\ log[r][i].role = "video"
              /\ log[r][i].ok /\ log[r][i].item = 0

\* the paths handed to the two downloads and to the merge
SplitPaths(r) ==
  { log[r][i].path :
      i \in { j \in LogIdx(r) : log[r][j].op \in {"download", "merge"} } }

\* C2: in the single-item split-pair path, when ffmpegMerge fails after both
\* downloads succeeded, sendVideo is never invoked, the failure notification
\* is sent, and once the handler has finished the video part, the audio part
\* and the merged output are all absent.
C2_MergeFailureCleansUp ==
  \A r \in Reqs :
    SplitMergeFailed(r) =>
      /\ \A i \in LogIdx(r) : log[r][i].op # "sendVideo"
      /\ "merge_error" \in Notes(r)
      /\ Finished(r) => (Cardinality(SplitPaths(r)) = 3 /\ SplitPaths(r) \cap fs = {})

C2_Witness ==
  \E r \in Reqs : SplitMergeFailed(r) /\ Finished(r)

(***************************************************************************)
(* C3  The size gate.                                                      *)
(***************************************************************************)
\* the delivery at index i was preceded by a measurement of the same file,
\* taken after the file was last written, that found it within MAX_SIZE
MeasuredWithinCap(r, i) ==
  \E j \in 1..(i - 1) :
    /\ log[r][j].op = "stat" /\ log[r][j].ok /\ log[r][j].path = log[r][i].path
    /\ log[r][j].size <= MAX_SIZE
    /\ \E w \in 1..(j - 1) :
         IsWrite(log[r][w]) /\ log[r][w].path = log[r][i].path
    /\ \A k \in (j + 1)..(i - 1) :
         ~(IsWrite(log[r][k]) /\ log[r][k].path = log[r][i].path)

MeasuredOversize(r) ==
  \E j \in LogIdx(r) :
    log[r][j].op = "stat" /\ log[r][j].ok /\ log[r][j].size > MAX_SIZE

\* C3: sendVideo and sendDocument are invoked only on a file measured, after
\* it was written, at no more than MAX_SIZE; when the measured size exceeds
\* MAX_SIZE there is no delivery, the oversize notification is sent and no
\* failure notification, and the files of the request are deleted once it
\* has finished.
C3_SizeGate ==
  \A r \in Reqs :
    /\ \A i \in LogIdx(r) : IsDelivery(log[r][i]) => MeasuredWithinCap(r, i)
    /\ MeasuredOversize(r) =>
         /\ \A i \in LogIdx(r) : ~IsDelivery(log[r][i])
         /\ Notes(r) \cap OversizeNotes # {}
         /\ Notes(r) \cap FailureNotes = {}
         /\ Finished(r) => CreatedPaths(r) \cap fs = {}

C3_Witness ==
  \E r \in Reqs : MeasuredOversize(r) /\ Finished(r) /\ CreatedPaths(r) # {}

(***************************************************************************)
(* C4  Disjoint paths of concurrent requests.                              *)
(***************************************************************************)
\* C4: two requests in flight at the same time never touch (write, measure,
\* deliver, delete) a common path.  The code breaks it: the paths of a
\* single video are derived from the sanitized title alone.
C4_DisjointPaths ==
  \A r1, r2 \in Reqs :
    (r1 # r2 /\ InFlight(r1) /\ InFlight(r2)) => Touched(r1) \cap Touched(r2) = {}

(***************************************************************************)
(* C5-C8  Variant selection, read with the cap of the specification: a     *)
(* descriptor of unknown size does not satisfy it.                         *)
(***************************************************************************)
KnownSize(f) == f.filesize # 0 \/ f.filesize_approx # 0

WithinCap(f) == KnownSize(f) /\ SizeOf(f) <= MAX_SIZE

ExceedsCap(f) == KnownSize(f) /\ SizeOf(f) > MAX_SIZE

QualCombined(f) ==
  /\ f.acodec # "none" /\ f.vcodec # "none"
  /\ f.ext \in {"mp4", "webm"} /\ f.height = TargetHeight /\ WithinCap(f)

QualVideoOnly(f) ==
  /\ f.acodec = "none" /\ f.vcodec # "none"
  /\ f.ext \in {"mp4", "webm"} /\ f.height = TargetHeight /\ WithinCap(f)

QualAudioOnly(f) ==
  /\ f.acodec # "none" /\ f.vcodec = "none"
  /\ f.ext \in {"mp4", "webm", "m4a"} /\ WithinCap(f)

\* the catalog the last selection of the request was made on
Catalog(r) == IF IsPlaylist(r) THEN vinfo[r].formats ELSE inp[r].info.formats

Selected(r) == sel[r].kind # "unset"

QualIdx(r, kind) ==
  { i \in 1..Len(Catalog(r)) :
      CASE kind = "combined" -> QualCombined(Catalog(r)[i])
        [] kind = "video"    -> QualVideoOnly(Catalog(r)[i])
        [] OTHER             -> QualAudioOnly(Catalog(r)[i]) }

FirstQual(r, kind) ==
  Catalog(r)[CHOOSE i \in QualIdx(r, kind) : \A j \in QualIdx(r, kind) : i <= j]

Downloads(r) == { i \in LogIdx(r) : log[r][i].op = "download" }

\* C5: a descriptor of unknown size (neither filesize nor filesize_approx)
\* is never chosen as the combined, the video-only or the audio-only
\* variant.  The code breaks it: an unknown size counts as 0.
C5_UnknownSizeNeverChosen ==
  \A r \in Reqs :
    sel[r].kind \in {"Combined", "SplitPair"} =>
      /\ KnownSize(sel[r].video)
      /\ sel[r].kind = "SplitPair" => KnownSize(sel[r].audio)

\* C6: when the catalog holds a qualifying combined descriptor, selection
\* yields Combined with the first such descriptor, and a single-video
\* request issues exactly one download, with that descriptor's format id.
C6_CombinedFirstMatch ==
  \A r \in Reqs :
    (Selected(r) /\ QualIdx(r, "combined") # {}) =>
      /\ sel[r].kind = "Combined"
      /\ sel[r].video = FirstQual(r, "combined")
      /\ (IsSingle(r) /\ Finished(r)) =>
           /\ Cardinality(Downloads(r)) = 1
           /\ \A i \in Downloads(r) :
                log[r][i].fmt = FirstQual(r, "combined").format_id

\* C7: with no qualifying combined descriptor, a qualifying video-only one
\* and at least one qualifying audio-only one, selection yields the split
\* pair of the first qualifying video-only descriptor and a qualifying
\* audio-only descriptor of the highest bitrate among the qualifying ones.
C7_SplitPairBestAudio ==
  \A r \in Reqs :
    ( /\ Selected(r)
      /\ QualIdx(r, "combined") = {}
      /\ QualIdx(r, "video") # {}
      /\ QualIdx(r, "audio") # {} ) =>
      /\ sel[r].kind = "SplitPair"
      /\ sel[r].video = FirstQual(r, "video")
      /\ QualAudioOnly(sel[r].audio)
      /\ \A i \in QualIdx(r, "audio") :
           AudioRate(Catalog(r)[i]) <= AudioRate(sel[r].audio)

\* C8: when every descriptor carrying video exceeds the cap or has another
\* height than 720, selection finds no video; when (no combined descriptor
\* qualifying) a video-only descriptor qualifies and no audio-only one does,
\* it finds no audio; and when it finds nothing a single-video request makes
\* no download, merge or delivery and creates no file.
C8_NoneFound ==
  \A r \in Reqs :
    Selected(r) =>
      /\ (\A i \in 1..Len(Catalog(r)) :
            Catalog(r)[i].vcodec # "none" =>
              (ExceedsCap(Catalog(r)[i]) \/ Catalog(r)[i].height # TargetHeight))
           => sel[r].kind = "NoVideo"
      /\ ( /\ QualIdx(r, "combined") = {}
           /\ QualIdx(r, "video") # {}
           /\ QualIdx(r, "audio") = {} ) => sel[r].kind = "NoAudio"
      /\ (IsSingle(r) /\ sel[r].kind \in {"NoVideo", "NoAudio"}) =>
           /\ CreatedPaths(r) = {}
           /\ \A i \in LogIdx(r) :
                ~IsDelivery(log[r][i]) /\ log[r][i].op # "merge"

(***************************************************************************)
(* C9  The batch cap.                                                      *)
(***************************************************************************)
\* the entries whose metadata the loop fetched, in the order of the fetches
ItemFetches(r) ==
  LET IsItemFetch(e) == e.op = "fetch" /\ e.item > 0
  IN  SelectSeq(log[r], IsItemFetch)

\* the calls made for an entry of the playlist, in the order of the calls
ItemCalls(r) ==
  LET IsItemCall(e) == e.item > 0
  IN  SelectSeq(log[r], IsItemCall)

\* C9: the items a playlist request attempts are exactly the first
\* min(n, MAX_PLAYLIST_VIDEOS) entries, one at a time in catalog order; no
\* fetch, download or merge is issued for an entry beyond the cap.
C9_BatchCap ==
  \A r \in Reqs :
    IsPlaylist(r) =>
      LET n == Len(inp[r].info.entries)
          fetched == ItemFetches(r)
      IN  /\ \A i \in LogIdx(r) :
                log[r][i].op \in {"fetch", "download", "merge"} =>
                  log[r][i].item <= Min(n, MAX_PLAYLIST_VIDEOS)
          /\ \A k \in 1..Len(fetched) :
                fetched[k].item = k /\ fetched[k].size = inp[r].info.entries[k].id
          /\ LET calls == ItemCalls(r)
             IN  \A k \in 1..(Len(calls) - 1) : calls[k].item <= calls[k + 1].item
          /\ PlLoopDone(r) => Len(fetched) = Min(n, MAX_PLAYLIST_VIDEOS)

C9_Witness ==
  \E r \in Reqs :
    /\ IsPlaylist(r) /\ Finished(r)
    /\ Len(inp[r].info.entries) > MAX_PLAYLIST_VIDEOS
    /\ Len(ItemFetches(r)) = MAX_PLAYLIST_VIDEOS

(***************************************************************************)
(* C10  A failed item is skipped, the batch goes on.                       *)
(***************************************************************************)
\* the items whose pipeline succeeded: the combined download, or the merge
ItemsSucceeded(r) ==
  { log[r][i].item :
      i \in { j \in LogIdx(r) :
                /\ log[r][j].item > 0 /\ log[r][j].ok
                /\ \/ log[r][j].op = "download" /\ log[r][j].role = "combined"
                   \/ log[r][j].op = "merge" } }

\* the items that failed: the fetch, a download or the merge
ItemsFailed(r) ==
  { log[r][i].item :
      i \in { j \in LogIdx(r) :
                /\ log[r][j].item > 0 /\ ~log[r][j].ok
                /\ log[r][j].op \in {"fetch", "download", "merge"} } }

\* C10: a failure of one item skips only that item: every later entry within
\* the cap is still attempted; the list handed to packaging holds exactly
\* the items that succeeded, in catalog order; and the batch ends with the
\* 'no videos could be downloaded' notification, without packaging or
\* delivery, exactly when no item succeeded.
C10_FailedItemSkipped ==
  \A r \in Reqs :
    PlLoopDone(r) =>
      LET files == downloadedFiles[r]
          last == Min(Len(inp[r].info.entries), MAX_PLAYLIST_VIDEOS)
      IN  /\ \A k \in 1..last :
                \E i \in LogIdx(r) : log[r][i].op = "fetch" /\ log[r][i].item = k
          /\ { files[i].item : i \in 1..Len(files) } = ItemsSucceeded(r)
          /\ \A i, j \in 1..Len(files) : i < j => files[i].item < files[j].item
          /\ ItemsSucceeded(r) = {} =>
                \A i \in LogIdx(r) :
                  log[r][i].op \notin {"zipFiles", "sendDocument"}
          /\ (ItemsSucceeded(r) # {} /\ pc[r] # "pl_zip") =>
                \E i \in LogIdx(r) :
                  log[r][i].op = "zipFiles" /\ log[r][i].size = Len(files)
          /\ Finished(r) =>
                ("none_downloaded" \in Notes(r) <=> ItemsSucceeded(r) = {})

C10_Witness ==
  \E r \in Reqs :
    /\ PlLoopDone(r) /\ Finished(r)
    /\ \E k \in ItemsFailed(r) : \E m \in ItemsSucceeded(r) : k < m

(***************************************************************************)
(* C11  The order of the split-pair pipeline.                              *)
(***************************************************************************)
\* a call of the given operation on the given item succeeded before entry k
OkBefore(r, k, op, role, item) ==
  \E i \in 1..(k - 1) :
    /\ log[r][i].op = op /\ log[r][i].role = role
    /\ log[r][i].item = item /\ log[r][i].ok

IsPartDownload(e) == e.op = "download" /\ e.role \in {"video", "audio"}

\* the paths handed to the part downloads of the request
PartPaths(r) ==
  { log[r][i].path : i \in { j \in LogIdx(r) : IsPartDownload(log[r][j]) } }

\* C11: for a split pair the steps run in the order video download, audio
\* download, merge, size check, delivery, each only after the previous one
\* succeeded: after a failed video download neither the audio download nor
\* the merge is invoked, after a failed audio download the merge is not
\* invoked, in both cases the item is never delivered, and once the handler
\* has finished no part file is left.
C11_SplitPairOrder ==
  \A r \in Reqs :
    /\ \A k \in LogIdx(r) :
         LET e == log[r][k]
         IN  /\ (e.op = "download" /\ e.role = "audio") =>
                   OkBefore(r, k, "download", "video", e.item)
             /\ e.op = "merge" =>
                   /\ OkBefore(r, k, "download", "audio", e.item)
                   /\ OkBefore(r, k, "download", "video", e.item)
             /\ (IsSingle(r) /\ e.op = "stat" /\ e.path = SvMergedPath(r)) =>
                   OkBefore(r, k, "merge", "", 0)
             /\ (e.op = "sendVideo" /\ e.path = SvMergedPath(r)) =>
                   \E i \in 1..(k - 1) :
                     /\ log[r][i].op = "stat" /\ log[r][i].path = e.path
                     /\ log[r][i].ok /\ ~Oversize(log[r][i].size)
                     /\ OkBefore(r, i, "merge", "", 0)
             /\ (IsPartDownload(e) /\ ~e.ok) =>
                   /\ \A j \in (k + 1)..Len(log[r]) :
                        log[r][j].item = e.item =>
                          log[r][j].op \notin
                            {"download", "merge", "stat", "sendVideo", "sendDocument"}
                   /\ \A i \in 1..Len(downloadedFiles[r]) :
                        downloadedFiles[r][i].item # e.item
    /\ Finished(r) => PartPaths(r) \cap fs = {}

\* a finished request whose audio download failed after the video part had
\* been written
C11_Witness ==
  \E r \in Reqs :
    /\ Finished(r)
    /\ \E k \in LogIdx(r) :
         /\ log[r][k].op = "download" /\ log[r][k].role = "audio" /\ ~log[r][k].ok
         /\ OkBefore(r, k, "download", "video", log[r][k].item)

(***************************************************************************)
(* C12  Distinct artifact paths within one batch.                          *)
(***************************************************************************)
\* C12: within one batch request any two successfully processed items are
\* recorded in downloadedFiles with distinct paths, no download or merge of
\* a later item writes to the path recorded for an earlier item, and the
\* archive never receives the same file twice.  The code breaks it: the
\* path is tempDir/<vTitle>_<format_id>.<ext> (line 203) or
\* tempDir/<vTitle>_720p_merged.mp4 (line 239), equal for two entries of
\* equal title and format.
C12_DistinctItemPaths ==
  \A r \in Reqs :
    LET files == downloadedFiles[r]
    IN  /\ \A i, j \in 1..Len(files) : i < j => files[i].path # files[j].path
        /\ \A k \in LogIdx(r) :
             (log[r][k].op \in {"download", "merge"} /\ log[r][k].item > 0) =>
               \A i \in 1..Len(files) :
                 files[i].item < log[r][k].item => files[i].path # log[r][k].path

(***************************************************************************)
(* C13  Packaging is atomic towards delivery.                              *)
(***************************************************************************)
\* the handler of the request takes no further step
Ended(r) == Finished(r) \/ pc[r] = "crashed"

\* nothing of the batch is left: the archive, the item files, the directory
BatchRemoved(r) ==
  /\ ZipPath(r) \notin fs
  /\ TempDir(r) \notin fs
  /\ \A p \in fs : ~InDir(p, TempDir(r))
  /\ \A i \in 1..Len(downloadedFiles[r]) : downloadedFiles[r][i].path \notin fs

\* C13: sendDocument is invoked only after zipFiles completed successfully
\* with every entry of downloadedFiles written; when archive creation fails,
\* sendDocument is never invoked, the packaging-failure notification is sent,
\* and the archive file, the item files and the temp directory are removed.
\* The code breaks it when the failure is on the output stream, which
\* zipFiles does not listen to (lines 297-304).
C13_PackagingAtomic ==
  \A r \in Reqs : \A k \in LogIdx(r) :
    /\ log[r][k].op = "sendDocument" =>
         \E i \in 1..(k - 1) :
           /\ log[r][i].op = "zipFiles" /\ log[r][i].ok
           /\ log[r][i].size = Len(downloadedFiles[r])
    /\ (log[r][k].op = "zipFiles" /\ ~log[r][k].ok) =>
         /\ \A j \in (k + 1)..Len(log[r]) : log[r][j].op # "sendDocument"
         /\ Ended(r) => ("zip_error" \in Notes(r) /\ BatchRemoved(r))

(***************************************************************************)
(* C14  Cleanup is best-effort and never raises.                           *)
(***************************************************************************)
IsDeletion(e) == e.op \in {"unlink", "rmdir"}

\* a deletion of the final cleanup (not of the parts of one playlist item)
IsCleanupCall(e) == IsDeletion(e) /\ e.item = 0

\* the paths of the final cleanup's deletion attempts, in order
CleanupCalls(r) ==
  LET calls == SelectSeq(log[r], IsCleanupCall)
  IN  [i \in 1..Len(calls) |-> calls[i].path]

\* the paths cleanupTemp has to try: the recorded files, the directory, the
\* archive
CleanupTempPaths(r) ==
  [i \in 1..Len(downloadedFiles[r]) |-> downloadedFiles[r][i].path]
    \o <<TempDir(r), ZipPath(r)>>

\* a collaborator call other than a deletion failed on the handler (a call
\* of zipFiles does so when its promise is rejected)
IsOriginalError(e) ==
  /\ ~e.ok /\ ~IsDeletion(e) /\ e.op # "sendMessage"
  /\ e.op = "zipFiles" => e.role = "rejected"

IsFailureNote(e) == e.op = "sendMessage" /\ e.role \in FailureNotes

\* C14: cleanupFile and cleanupTemp end normally whatever each deletion
\* answers (done, nothing there, any other error): a failed deletion never
\* keeps the remaining paths (item files, temp directory, archive; the parts
\* and the output of a single video; the two parts of a playlist item) from
\* being tried, the handler finishes as it would have, and a failed deletion
\* neither adds a failure notification nor takes the place of the one of the
\* original error.
C14_CleanupBestEffort ==
  \A r \in Reqs :
    /\ (Finished(r) /\ IsPlaylist(r)) => CleanupCalls(r) = CleanupTempPaths(r)
    /\ (Finished(r) /\ IsSingle(r) /\ sel[r].kind = "SplitPair") =>
          CleanupCalls(r) = SvFinallyPaths(r)
    /\ \A k \in LogIdx(r) :
         LET e == log[r][k]
         IN  /\ (e.op = "merge" /\ e.ok /\ e.item > 0
                   /\ ~(idx[r] = e.item /\ pc[r] \in {"pl_s_c1", "pl_s_c2"})) =>
                  /\ Len(log[r]) >= k + 2
                  /\ log[r][k + 1].op = "unlink" /\ log[r][k + 1].path[3] = "video"
                  /\ log[r][k + 2].op = "unlink" /\ log[r][k + 2].path[3] = "audio"
                  /\ \E i \in 1..Len(downloadedFiles[r]) :
                       downloadedFiles[r][i].item = e.item
             /\ (IsFailureNote(e) /\ e.role # "none_downloaded") =>
                  /\ k > 1
                  /\ \/ IsOriginalError(log[r][k - 1])
                     \/ log[r][k - 1] = Note("processing")
             /\ (IsOriginalError(e) /\ e.item = 0) =>
                  /\ Len(log[r]) > k
                  /\ IsFailureNote(log[r][k + 1])
    /\ "none_downloaded" \in Notes(r) => downloadedFiles[r] = <<>>
    /\ Cardinality({ k \in LogIdx(r) : IsFailureNote(log[r][k]) }) <= 1

\* a finished playlist whose cleanupTemp went on after a deletion had failed,
\* and a finished single video whose finally block did
C14_Witness ==
  /\ \E r \in Reqs :
       /\ Finished(r)
       /\ \E k \in LogIdx(r) :
            /\ IsCleanupCall(log[r][k]) /\ ~log[r][k].ok
            /\ k < Len(log[r]) /\ IsDeletion(log[r][k + 1])

(***************************************************************************)
(* C15  One terminal outcome per request.                                  *)
(***************************************************************************)
\* the notifications that end a request without a delivery
TerminalNotes == FailureNotes \cup OversizeNotes \cup {"no_video", "no_audio"}

SuccessfulDeliveries(r) ==
  { k \in LogIdx(r) : IsDelivery(log[r][k]) /\ log[r][k].ok }

TerminalNotifications(r) ==
  { k \in LogIdx(r) :
      log[r][k].op = "sendMessage" /\ log[r][k].role \in TerminalNotes }

\* C15: a request whose URL passed validation ends with exactly one terminal
\* outcome: one successful delivery and no failure notification, or one
\* failure or oversize notification and no successful delivery; never both,
\* never neither, never two failure notifications.  The code breaks
\* 'never neither' where the packaging of C13 ends the process.
C15_OneTerminalOutcome ==
  \A r \in Reqs :
    LET n == Cardinality(SuccessfulDeliveries(r))
               + Cardinality(TerminalNotifications(r))
    IN  /\ n <= 1
        /\ (Ended(r) /\ inp[r].kind = "url") => n = 1

(***************************************************************************)
(* C16  The archive receives deliverable artifacts only.                   *)
(***************************************************************************)
\* the call that produced the entry: the successful combined download of its
\* item, or the successful merge of its item after both part downloads
ProducedBy(r, entry, k) ==
  /\ log[r][k].item = entry.item /\ log[r][k].path = entry.path /\ log[r][k].ok
  /\ \/ log[r][k].op = "download" /\ log[r][k].role = "combined"
     \/ /\ log[r][k].op = "merge"
        /\ OkBefore(r, k, "download", "video", entry.item)
        /\ OkBefore(r, k, "download", "audio", entry.item)

\* the part paths of one playlist item
ItemPartPaths(r, item) ==
  { log[r][i].path :
      i \in { j \in LogIdx(r) : IsPartDownload(log[r][j]) /\ log[r][j].item = item } }

\* the item's turn is over: a later item has started or the loop has ended
ItemOver(r, item) == ~(idx[r] = item /\ pc[r] \in {"pl_s_c1", "pl_s_c2"})

\* C16: every entry of downloadedFiles is a combined download, or a merged
\* output, whose download (and merge) succeeded; no video-only or audio-only
\* part file is an entry; and the two part files of an item that merged
\* successfully are deleted before the next item starts and before packaging
\* begins.
C16_DeliverableEntries ==
  \A r \in Reqs :
    /\ \A i \in 1..Len(downloadedFiles[r]) :
         LET entry == downloadedFiles[r][i]
         IN  /\ \E k \in LogIdx(r) : ProducedBy(r, entry, k)
             /\ \A k \in LogIdx(r) :
                  IsPartDownload(log[r][k]) => log[r][k].path # entry.path
    /\ \A k \in LogIdx(r) :
         (log[r][k].op = "merge" /\ log[r][k].ok /\ log[r][k].item > 0
            /\ ItemOver(r, log[r][k].item)) =>
           /\ Len(log[r]) >= k + 2
           /\ log[r][k + 1].op = "unlink" /\ log[r][k + 1].ok
           /\ log[r][k + 2].op = "unlink" /\ log[r][k + 2].ok
           /\ { log[r][k + 1].path, log[r][k + 2].path }
                = ItemPartPaths(r, log[r][k].item)
           /\ Len(log[r]) = k + 2 => ItemPartPaths(r, log[r][k].item) \cap fs = {}

\* packaging is about to begin with the merged output of a split pair among
\* the entries
C16_Witness ==
  \E r \in Reqs :
    /\ pc[r] = "pl_zip"
    /\ \E k \in LogIdx(r) :
         log[r][k].op = "merge" /\ log[r][k].ok /\ log[r][k].item > 0

(***************************************************************************)
(* C17  Every accepted request finishes.                                   *)
(***************************************************************************)
\* every collaborator call returns or fails, and the event loop then runs
\* the handler that awaits it: no request that can take a step waits forever
Fairness ==
  \A r \in Reqs :
    WF_vars(Receive(r) \/ FetchInfo(r) \/ handleSingleVideo(r) \/ handlePlaylist(r))

SpecLive == Init /\ [][Next]_vars /\ Fairness

\* C17: provided every collaborator call returns or fails, every accepted
\* request eventually finishes: a single video after its final cleanup, a
\* playlist after at most MAX_PLAYLIST_VIDEOS iterations, packaging, the size
\* gate and cleanupTemp.  The code breaks it where the packaging of C13 ends
\* the process: the promise of zipFiles is never settled.
C17_EveryRequestFinishes ==
  /\ \A r \in Reqs : (pc[r] = "fetch") ~> Finished(r)
  /\ [](\A r \in Reqs : idx[r] <= MAX_PLAYLIST_VIDEOS + 1)

=============================================================================
